---- MODULE Spec2Model ----
(***************************************************************************)
(* The Sudoku engine of terminal-sudoku (src/game.py): the constraint      *)
(* predicate, the randomized seeding, the backtracking solver, the removal *)
(* of cells and the validator; and the window on top of it                 *)
(* (src/window.py): the playing board, the user-accessible cells, the keys *)
(* and the commands.                                                       *)
(*                                                                         *)
(* Grids are indexed as in the source, board[r][c] with r, c in 0..8.      *)
(* Python lists that are not grids (row, col, nums, errors) are sequences; *)
(* the Python index i is the position i + 1.                               *)
(***************************************************************************)
EXTENDS Integers, Sequences, FiniteSets, TLC

VARIABLES
    board,            \* self.board
    solution,         \* self.solution
    pc,               \* position of the running method
    mode,             \* the method that called _solve: "generate" or "solve"
    difficulty,       \* argument of generate
    row,              \* _fill_board: the local list row (also board[0])
    fr, fc, fn,       \* _fill_board: loop positions r, c and the position in row
    stack,            \* _solve: one frame per active call
    ret,              \* _solve: the value returned by the last call that returned
    total_to_remove,  \* _remove_vals: local
    removed,          \* _remove_vals: local
    start,            \* the grid _solve was first called on (history)
    result,           \* what the last check returned, with its argument
    generates,        \* the number of calls of generate so far
    candidate,        \* check: the argument board
    col,              \* _fill_board: the local list col
    playing_board,    \* WindowBoard.playing_board
    cursors_user_accessible,  \* WindowBoard.cursors_user_accessible
    index_row, index_col,     \* WindowBoard.index_row, index_col
    solved, errors,   \* WindowBoard.solved, WindowBoard.errors
    ui,               \* position of the window: main loop, status bar, _vsolve
    marked,           \* mark_errors ran after the last new board or solve (history)
    moves             \* the number of cursor moves so far

\* the state of the window
uivars == <<playing_board, cursors_user_accessible, index_row, index_col,
            solved, errors, ui, marked, moves>>

vars == <<board, solution, pc, mode, difficulty, row, fr, fc, fn, stack, ret,
          total_to_remove, removed, start, result, generates, candidate, col,
          uivars>>

(***************************************************************************)
(* Bounds of the model.                                                    *)
(***************************************************************************)
\* random.shuffle yields one of the outcomes 0..MaxShuffle (see shuffle)
MaxShuffle == 1
\* calls of _solve nested less deep than this draw any outcome of the shuffle;
\* deeper calls draw outcome 0
MaxRandDepth == 1
\* _remove_vals draws a zero cell, or one of the first PickWindow non-zero cells
PickWindow == 1
\* check is handed the solution with one of the first MaxChanged givens changed
MaxChanged == 1
\* generate is called at most MaxGenerate times
MaxGenerate == 1
\* the grids handed to solve differ from Base in the first NumSolveCells
\* cells of SolveCells
NumSolveCells == 4
\* the boards handed to check differ from Base in the first NumCheckCells
\* cells of CheckCells
NumCheckCells == 3
\* the cursor of the window is moved at most MaxMoves times
MaxMoves == 1
\* the numeric keys pressed are 0..MaxDigit
MaxDigit == 1
\* the removal targets generate draws for the window are the first MaxTargets
\* of the range of the difficulty
MaxTargets == 1

None == <<>>

\* no window: the engine is used on its own
UIOff ==
    /\ playing_board = None
    /\ cursors_user_accessible = None
    /\ index_row = 0 /\ index_col = 0
    /\ solved = FALSE
    /\ errors = None
    /\ ui = "none"
    /\ marked = FALSE
    /\ moves = 0

(***************************************************************************)
(* Python helpers.                                                         *)
(***************************************************************************)
\* list(range(a, b))
range(a, b) == [i \in 1..(b - a) |-> a + i - 1]

Rotl(x, k) == [i \in 1..Len(x) |-> x[((i - 1 + k) % Len(x)) + 1]]

Rev(x) == [i \in 1..Len(x) |-> x[Len(x) + 1 - i]]

\* random.shuffle(x): a permutation of x.  Outcome s is x rotated left by
\* s \div 2, reversed when s is odd; outcome 0 leaves x as it is.
shuffle(x, s) == IF s % 2 = 0 THEN Rotl(x, s \div 2) ELSE Rev(Rotl(x, s \div 2))

Outcomes == 0..MaxShuffle

\* list.remove(v): drops the first occurrence of v
list_remove(x, v) ==
    LET i == CHOOSE i \in 1..Len(x) : x[i] = v /\ \A j \in 1..(i - 1) : x[j] # v
    IN  SubSeq(x, 1, i - 1) \o SubSeq(x, i + 1, Len(x))

\* [[0]*9 for _ in range(9)]
ZeroRow == [c \in 0..8 |-> 0]

\* a list of 9 values as a row of the grid
AsRow(x) == [c \in 0..8 |-> x[c + 1]]

(***************************************************************************)
(* Sudoku.__init__                                                         *)
(***************************************************************************)
\* the hard range reaching past the 81 cells of the grid
difficulties_over ==
    [easy |-> range(28, 35), medium |-> range(34, 41), hard |-> range(76, 83)]

\* the easy range one too long
difficulties_long ==
    [easy |-> range(28, 36), medium |-> range(34, 41), hard |-> range(40, 47)]

difficulties ==
    [easy |-> range(28, 35), medium |-> range(34, 41), hard |-> range(40, 47)]

(***************************************************************************)
(* Sudoku._possible and Sudoku._find_empty                                 *)
(***************************************************************************)
\* _possible without the test of the square
possible_no_square(b, r0, c0, num) ==
    /\ \A c \in 0..8 : ~(b[r0][c] = num /\ c0 # c)
    /\ \A r \in 0..8 : ~(b[r][c0] = num /\ r0 # r)

possible(b, r0, c0, num) ==
    LET srow == (r0 \div 3) * 3
        scol == (c0 \div 3) * 3
    IN  /\ \A c \in 0..8 : ~(b[r0][c] = num /\ c0 # c)
        /\ \A r \in 0..8 : ~(b[r][c0] = num /\ r0 # r)
        /\ \A r \in srow..(srow + 2) : \A c \in scol..(scol + 2) :
              ~(b[r][c] = num /\ <<r, c>> # <<r0, c0>>)

\* the cells in the order of the nested loops over range(9): rows, then columns
scan == [k \in 1..81 |-> <<(k - 1) \div 9, (k - 1) % 9>>]

\* the first cell holding 0 among the cells from the k-th of the scan on
scan_empty(b, k) ==
    LET z == SelectSeq(SubSeq(scan, k + 1, 81), LAMBDA p : b[p[1]][p[2]] = 0)
    IN  IF z = <<>> THEN None ELSE Head(z)

\* _find_empty scanning from the second cell on
find_empty_from_1(b) == scan_empty(b, 1)

find_empty(b) == scan_empty(b, 0)

(***************************************************************************)
(* Sudoku.generate: _fill_board                                            *)
(***************************************************************************)
\* the column pool after the removals and re-appends of lines 96-101
col_pool(row0, cl) ==
    LET c0 == list_remove(cl, row0[1])
        c1 == Append(list_remove(c0, row0[2]), row0[2])
        c2 == Append(list_remove(c1, row0[3]), row0[3])
    IN  c2

\* col[3:] = shuffled col[3:]
col_shuffle_tail(cl, s) ==
    SubSeq(cl, 1, 3) \o shuffle(SubSeq(cl, 4, Len(cl)), s)

place(b, r, c, v) == [b EXCEPT ![r][c] = v]

\* generate is called; the locals of the call before are gone
Generate(d) ==
    /\ pc = "idle"
    /\ generates < MaxGenerate
    /\ generates' = generates + 1
    /\ pc' = "fill_row"
    /\ difficulty' = d
    /\ mode' = "generate"
    /\ result' = None
    /\ ret' = FALSE
    /\ total_to_remove' = 0
    /\ removed' = 0
    /\ start' = None
    /\ UNCHANGED <<board, solution, row, fr, fc, fn, stack, candidate,
                   col, uivars>>

\* lines 86-90
FillRow ==
    /\ pc = "fill_row"
    /\ \E s \in Outcomes :
          LET r0 == shuffle(range(1, 10), s)
          IN  /\ row' = r0
              /\ board' = [r \in 0..8 |-> IF r = 0 THEN AsRow(r0) ELSE ZeroRow]
    /\ pc' = "fill_col"
    /\ UNCHANGED <<solution, mode, difficulty, fr, fc, fn, stack, ret,
                   total_to_remove, removed, start, result, generates, candidate,
                   col, uivars>>

\* lines 93-105: the list col is built
FillCol ==
    /\ pc = "fill_col"
    /\ \E s \in Outcomes, t \in Outcomes :
          col' = col_shuffle_tail(col_pool(row, shuffle(range(1, 10), s)), t)
    /\ pc' = "fill_col_loop"
    /\ fr' = 1
    /\ UNCHANGED <<board, solution, mode, difficulty, row, fc, fn, stack, ret,
                   total_to_remove, removed, start, result, generates, candidate,
                   uivars>>

\* lines 107-108: one pass of the loop, board[r][0] = col[r-1]
FillColCell ==
    /\ pc = "fill_col_loop"
    /\ board' = place(board, fr, 0, col[fr])
    /\ IF fr < 8 THEN fr' = fr + 1 /\ UNCHANGED <<pc, fc, fn>>
       ELSE pc' = "fill_square" /\ fr' = 1 /\ fc' = 1 /\ fn' = 1
    /\ UNCHANGED <<solution, mode, difficulty, row, stack, ret,
                   total_to_remove, removed, start, result, generates, candidate,
                   col, uivars>>

\* lines 111-116: one pass of the innermost loop
FillSquare ==
    /\ pc = "fill_square"
    /\ fr <= 2
    /\ board' = IF possible(board, fr, fc, row[fn])
                THEN place(board, fr, fc, row[fn])
                ELSE board
    /\ IF fn < 9 THEN fn' = fn + 1 /\ UNCHANGED <<fr, fc>>
       ELSE IF fc < 2 THEN fn' = 1 /\ fc' = fc + 1 /\ UNCHANGED fr
       ELSE fn' = 1 /\ fc' = 1 /\ fr' = fr + 1
    /\ UNCHANGED <<solution, pc, mode, difficulty, row, stack, ret,
                   total_to_remove, removed, start, result, generates, candidate,
                   col, uivars>>

\* _fill_board returns; generate calls _solve (line 78)
FillDone ==
    /\ pc = "fill_square"
    /\ fr > 2
    /\ pc' = "solve_call"
    /\ row' = None /\ col' = None /\ fr' = 0 /\ fc' = 0 /\ fn' = 0
    /\ start' = board
    /\ UNCHANGED <<board, solution, mode, difficulty, stack, ret,
                   total_to_remove, removed, result, generates, candidate,
                   uivars>>

(***************************************************************************)
(* Sudoku._solve                                                           *)
(***************************************************************************)
Top == stack[Len(stack)]

Pop == SubSeq(stack, 1, Len(stack) - 1)

Advance == [stack EXCEPT ![Len(stack)].i = @ + 1]

\* the outcomes of random.shuffle(nums) a call at this depth draws
NumsOutcomes(depth) == IF depth < MaxRandDepth THEN Outcomes ELSE {0}

\* _solve without line 228
undo_keep(b, r, c) == b

undo(b, r, c) == [b EXCEPT ![r][c] = 0]

\* lines 214-216: no empty cell, return True
SolveFull ==
    /\ pc = "solve_call"
    /\ find_empty(board) = None
    /\ ret' = TRUE
    /\ pc' = "solve_ret"
    /\ UNCHANGED <<board, solution, mode, difficulty, row, fr, fc, fn, stack,
                   total_to_remove, removed, start, result, generates, candidate,
                   col, uivars>>

\* lines 214-220: an empty cell, the candidates are shuffled
SolveEnter ==
    /\ pc = "solve_call"
    /\ find_empty(board) # None
    /\ \E s \in NumsOutcomes(Len(stack)) :
          stack' = Append(stack, [row   |-> find_empty(board)[1],
                                  col   |-> find_empty(board)[2],
                                  nums  |-> shuffle(range(1, 10), s),
                                  i     |-> 1,
                                  entry |-> board])
    /\ pc' = "solve_loop"
    /\ UNCHANGED <<board, solution, mode, difficulty, row, fr, fc, fn, ret,
                   total_to_remove, removed, start, result, generates, candidate,
                   col, uivars>>

\* lines 221-225: the candidate is possible, it is placed and _solve is called
SolvePlace ==
    /\ pc = "solve_loop"
    /\ Top.i <= 9
    /\ possible(board, Top.row, Top.col, Top.nums[Top.i])
    /\ board' = place(board, Top.row, Top.col, Top.nums[Top.i])
    /\ pc' = "solve_call"
    /\ UNCHANGED <<solution, mode, difficulty, row, fr, fc, fn, stack, ret,
                   total_to_remove, removed, start, result, generates, candidate,
                   col, uivars>>

\* lines 221-222: the candidate is not possible, next candidate
SolveSkip ==
    /\ pc = "solve_loop"
    /\ Top.i <= 9
    /\ ~possible(board, Top.row, Top.col, Top.nums[Top.i])
    /\ stack' = Advance
    /\ UNCHANGED <<board, solution, pc, mode, difficulty, row, fr, fc, fn, ret,
                   total_to_remove, removed, start, result, generates, candidate,
                   col, uivars>>

\* line 230: the candidates are exhausted, return False
SolveFail ==
    /\ pc = "solve_loop"
    /\ Top.i > 9
    /\ stack' = Pop
    /\ ret' = FALSE
    /\ pc' = "solve_ret"
    /\ UNCHANGED <<board, solution, mode, difficulty, row, fr, fc, fn,
                   total_to_remove, removed, start, result, generates, candidate,
                   col, uivars>>

\* lines 225-226: the recursive call returned True, return True
SolveRetTrue ==
    /\ pc = "solve_ret"
    /\ stack # <<>>
    /\ ret
    /\ stack' = Pop
    /\ UNCHANGED <<board, solution, pc, mode, difficulty, row, fr, fc, fn, ret,
                   total_to_remove, removed, start, result, generates, candidate,
                   col, uivars>>

\* lines 225-228: the recursive call returned False, the cell is reset
SolveRetFalse ==
    /\ pc = "solve_ret"
    /\ stack # <<>>
    /\ ~ret
    /\ board' = undo(board, Top.row, Top.col)
    /\ stack' = Advance
    /\ pc' = "solve_loop"
    /\ UNCHANGED <<solution, mode, difficulty, row, fr, fc, fn, ret,
                   total_to_remove, removed, start, result, generates, candidate,
                   col, uivars>>

SolveStep ==
    \/ SolveFull
    \/ SolveEnter
    \/ SolvePlace
    \/ SolveSkip
    \/ SolveFail
    \/ SolveRetTrue
    \/ SolveRetFalse

(***************************************************************************)
(* Sudoku.generate: lines 79-82 and _remove_vals                           *)
(***************************************************************************)
Cells == (0..8) \X (0..8)

\* the first n non-zero cells of b from position k on, in row-major order
first_nonzero(b, k, n) ==
    LET nz == SelectSeq(SubSeq(scan, k + 1, 81), LAMBDA p : b[p[1]][p[2]] # 0)
    IN  {nz[i] : i \in 1..(IF n < Len(nz) THEN n ELSE Len(nz))}

\* the draws (row, col) of lines 124-125 on a non-zero cell that the model
\* follows: the first PickWindow non-zero cells in row-major order
HitPicks(b) == first_nonzero(b, 0, PickWindow)

\* line 79: _solve has returned (its value is not looked at)
SolutionCopy ==
    /\ pc = "solve_ret"
    /\ stack = <<>>
    /\ mode = "generate"
    /\ solution' = board
    /\ pc' = "remove_init"
    /\ UNCHANGED <<board, mode, difficulty, row, fr, fc, fn, stack, ret,
                   total_to_remove, removed, start, result, generates, candidate,
                   col, uivars>>

\* lines 119-122
RemoveInit ==
    /\ pc = "remove_init"
    /\ LET diff_range == difficulties[difficulty]
       IN  \E i \in 0..(Len(diff_range) - 1) :
              total_to_remove' = diff_range[i + 1]
    /\ removed' = 0
    /\ pc' = "remove"
    /\ UNCHANGED <<board, solution, mode, difficulty, row, fr, fc, fn, stack,
                   ret, start, result, generates, candidate,
                   col, uivars>>

\* the count after a draw that hit a non-zero cell
count_removed(n) == n + 1

\* lines 123-129: the drawn cell is not zero
RemoveHit ==
    /\ pc = "remove"
    /\ removed < total_to_remove
    /\ \E p \in HitPicks(board) :
          board' = place(board, p[1], p[2], 0)
    /\ removed' = count_removed(removed)
    /\ UNCHANGED <<solution, pc, mode, difficulty, row, fr, fc, fn, stack, ret,
                   total_to_remove, start, result, generates, candidate,
                   col, uivars>>

\* lines 123-127: the drawn cell is zero already
RemoveMiss ==
    /\ pc = "remove"
    /\ removed < total_to_remove
    /\ find_empty(board) # None
    /\ UNCHANGED vars

\* line 123 is false, _remove_vals and generate return
RemoveDone ==
    /\ pc = "remove"
    /\ ~(removed < total_to_remove)
    /\ pc' = "idle"
    /\ UNCHANGED <<board, solution, mode, difficulty, row, fr, fc, fn, stack,
                   ret, total_to_remove, removed, start, result, generates, candidate,
                   col, uivars>>

(***************************************************************************)
(* Sudoku.check                                                            *)
(***************************************************************************)
\* lines 170-176: the loops over the cells of b; orig is self.board.  solved
\* is cleared at every cell whose value fails _possible, and the cell is
\* appended to errors, in the order of the loops, when orig holds 0 there
check_loop(b, orig) ==
    LET fails(p) == ~possible(b, p[1], p[2], b[p[1]][p[2]])
    IN  [solved |-> \A k \in 1..81 : ~fails(scan[k]),
         errors |-> SelectSeq(scan, LAMBDA p : fails(p) /\ orig[p[1]][p[2]] = 0)]

\* check with _possible left to read self.board
check_self(b, orig) == check_loop(orig, orig)

\* check without the test of line 175
check_all(b, orig) ==
    check_loop(b, [r \in 0..8 |-> ZeroRow])

check(b, orig) == check_loop(b, orig)

\* the grid g with the cell p set to v
With(g, p, v) == [g EXCEPT ![p[1]][p[2]] = v]

\* the boards handed to check after a generate: the solution, the puzzle, and
\* the solution with one of the first MaxChanged givens set to another digit
Candidates ==
    {solution, board} \cup
    UNION {{With(solution, p, v) : v \in (1..9) \ {solution[p[1]][p[2]]}} :
              p \in first_nonzero(board, 0, MaxChanged)}

\* a caller hands one of the candidates to check
CheckCall ==
    /\ pc = "idle"
    /\ solution # None
    /\ \E cand \in Candidates : candidate' = cand
    /\ pc' = "check_call"
    /\ UNCHANGED <<board, solution, mode, difficulty, row, fr, fc, fn, stack,
                   ret, total_to_remove, removed, start, result, generates,
                   col, uivars>>

\* lines 167-178
Check ==
    /\ pc = "check_call"
    /\ result' = check(candidate, board)
    /\ pc' = "checked"
    /\ UNCHANGED <<board, solution, mode, difficulty, row, fr, fc, fn, stack,
                   ret, total_to_remove, removed, start, generates, candidate,
                   col, uivars>>

\* the caller has used what check returned
CheckReturn ==
    /\ pc = "checked"
    /\ pc' = "idle"
    /\ candidate' = None
    /\ result' = None
    /\ UNCHANGED <<board, solution, mode, difficulty, row, fr, fc, fn, stack,
                   ret, total_to_remove, removed, start, generates,
                   col, uivars>>

(***************************************************************************)
(* The engine: generate, then any number of check and generate.            *)
(***************************************************************************)
Init ==
    /\ board = <<>>
    /\ solution = <<>>
    /\ pc = "idle"
    /\ mode = "none"
    /\ difficulty = "medium"
    /\ row = None
    /\ fr = 0 /\ fc = 0 /\ fn = 0
    /\ stack = <<>>
    /\ ret = FALSE
    /\ total_to_remove = 0
    /\ removed = 0
    /\ start = None
    /\ result = None
    /\ generates = 0
    /\ col = None
    /\ UIOff
    /\ candidate = None

Next ==
    \/ \E d \in {"easy", "medium", "hard"} : Generate(d)
    \/ FillRow
    \/ FillCol
    \/ FillColCell
    \/ FillSquare
    \/ FillDone
    \/ SolveFull
    \/ SolveEnter
    \/ SolvePlace
    \/ SolveSkip
    \/ SolveFail
    \/ SolveRetTrue
    \/ SolveRetFalse
    \/ SolutionCopy
    \/ RemoveInit
    \/ RemoveHit
    \/ RemoveMiss
    \/ RemoveDone
    \/ CheckCall
    \/ Check
    \/ CheckReturn

Spec == Init /\ [][Next]_vars

\* the engine running on: the loop of _remove_vals goes on while its test
\* holds, and random.randint draws a cell that is not zero again and again
SpecLive == Spec /\ WF_vars(RemoveHit) /\ WF_vars(RemoveDone)

(***************************************************************************)
(* Sudoku.solve on a grid the caller has put in board.                     *)
(***************************************************************************)
\* a legal complete grid
Base == [r \in 0..8 |-> [c \in 0..8 |-> ((((r % 3) * 3) + (r \div 3) + c) % 9) + 1]]

\* the digit before v
pred(v) == ((v + 7) % 9) + 1

\* Base with the cells cs[1..n] set as f says: 0 empties the cell, 1 leaves
\* it, 2 puts the digit before
Edit(cs, n, f) ==
    [r \in 0..8 |-> [c \in 0..8 |->
        IF \E i \in 1..n : cs[i] = <<r, c>> /\ f[i] = 0 THEN 0
        ELSE IF \E i \in 1..n : cs[i] = <<r, c>> /\ f[i] = 2 THEN pred(Base[r][c])
        ELSE Base[r][c]]]

SolveCells == << <<0, 0>>, <<0, 1>>, <<3, 0>>, <<8, 1>>, <<3, 1>>, <<4, 4>> >>

StartGrids ==
    {Edit(SolveCells, NumSolveCells, f) : f \in [1..NumSolveCells -> 0..2]}

\* lines 210: solve calls _solve
Solve ==
    /\ pc = "idle"
    /\ board # None
    /\ pc' = "solve_call"
    /\ mode' = "solve"
    /\ start' = board
    /\ UNCHANGED <<board, solution, difficulty, row, fr, fc, fn, stack, ret,
                   total_to_remove, removed, result, generates, candidate,
                   col, uivars>>

\* line 211: _solve has returned, solve returns the board
SolveReturn ==
    /\ pc = "solve_ret"
    /\ stack = <<>>
    /\ mode = "solve"
    /\ pc' = "solved"
    /\ UNCHANGED <<board, solution, mode, difficulty, row, fr, fc, fn, stack,
                   ret, total_to_remove, removed, start, result, generates,
                   candidate,
                   col, uivars>>

InitSolve ==
    /\ board \in StartGrids
    /\ solution = <<>>
    /\ pc = "idle"
    /\ mode = "none"
    /\ difficulty = "medium"
    /\ row = None
    /\ fr = 0 /\ fc = 0 /\ fn = 0
    /\ stack = <<>>
    /\ ret = FALSE
    /\ total_to_remove = 0
    /\ removed = 0
    /\ start = None
    /\ result = None
    /\ generates = 0
    /\ col = None
    /\ UIOff
    /\ candidate = None

NextSolve ==
    \/ Solve
    \/ SolveFull
    \/ SolveEnter
    \/ SolvePlace
    \/ SolveSkip
    \/ SolveFail
    \/ SolveRetTrue
    \/ SolveRetFalse
    \/ SolveReturn

SpecSolve == InitSolve /\ [][NextSolve]_vars

(***************************************************************************)
(* Sudoku.solve on the grid of zeros.                                      *)
(***************************************************************************)
ZeroGrid == [r \in 0..8 |-> ZeroRow]

InitPlain ==
    /\ board = ZeroGrid
    /\ solution = <<>>
    /\ pc = "idle"
    /\ mode = "none"
    /\ difficulty = "medium"
    /\ row = None
    /\ fr = 0 /\ fc = 0 /\ fn = 0
    /\ stack = <<>>
    /\ ret = FALSE
    /\ total_to_remove = 0
    /\ removed = 0
    /\ start = None
    /\ result = None
    /\ generates = 0
    /\ candidate = None
    /\ col = None
    /\ UIOff

SpecPlain == InitPlain /\ [][NextSolve]_vars

(***************************************************************************)
(* The engine used either way: generate and check on a fresh object, or    *)
(* solve on a grid the caller has put in board.                            *)
(***************************************************************************)
InitGrid == Init \/ InitSolve

\* solve on a grid that does not come from generate
SolveGiven == generates = 0 /\ Solve

NextGrid ==
    \/ Next
    \/ SolveGiven
    \/ SolveReturn

SpecGrid == InitGrid /\ [][NextGrid]_vars

(***************************************************************************)
(* Sudoku.check on any board, against any puzzle.                          *)
(***************************************************************************)
CheckCells == << <<0, 0>>, <<0, 1>>, <<4, 4>>, <<1, 1>>, <<4, 0>> >>

CheckBoards ==
    {Edit(CheckCells, NumCheckCells, f) : f \in [1..NumCheckCells -> 0..2]}

\* the puzzles: Base with some of the cells emptied
Puzzles ==
    {Edit(CheckCells, NumCheckCells, f) : f \in [1..NumCheckCells -> 0..1]}

InitCheck ==
    /\ board \in Puzzles
    /\ candidate \in CheckBoards
    /\ solution = Base
    /\ pc = "check_call"
    /\ mode = "none"
    /\ difficulty = "medium"
    /\ row = None
    /\ fr = 0 /\ fc = 0 /\ fn = 0
    /\ stack = <<>>
    /\ ret = FALSE
    /\ total_to_remove = 0
    /\ removed = 0
    /\ start = None
    /\ result = None
    /\ generates = 0
    /\ col = None
    /\ UIOff

NextCheck ==
    \/ Check
    \/ CheckReturn

SpecCheck == InitCheck /\ [][NextCheck]_vars

(***************************************************************************)
(* The window (src/window.py): WindowBoard and the commands of Window.     *)
(***************************************************************************)
\* a grid generate completes: row 0 and the pool of column 0 come out of
\* random.shuffle unchanged, and so do the candidates of every call of _solve
UISolution ==
    LET g == << <<1, 2, 3, 4, 5, 6, 7, 8, 9>>,
                <<4, 9, 8, 1, 2, 7, 3, 5, 6>>,
                <<5, 7, 6, 3, 8, 9, 1, 2, 4>>,
                <<6, 1, 2, 5, 3, 4, 8, 9, 7>>,
                <<7, 3, 4, 2, 9, 8, 5, 6, 1>>,
                <<8, 5, 9, 6, 7, 1, 2, 4, 3>>,
                <<9, 4, 5, 7, 1, 2, 6, 3, 8>>,
                <<2, 6, 1, 8, 4, 3, 9, 7, 5>>,
                <<3, 8, 7, 9, 6, 5, 4, 1, 2>> >>
    IN  [r \in 0..8 |-> AsRow(g[r + 1])]

\* _remove_vals when every draw hits the first cell that is not zero yet:
\* the first k cells in row-major order are set to 0
remove_first(g, k) ==
    [r \in 0..8 |-> [c \in 0..8 |-> IF r * 9 + c < k THEN 0 ELSE g[r][c]]]

\* the boards super().generate(difficulty) leaves that the window is run on
UIBoards(d) ==
    {remove_first(UISolution, difficulties[d][i]) : i \in 1..MaxTargets}

\* [[False * 9] * 9 for _ in range(9)]: no cell is user-accessible
NoneAccessible == [r \in 0..8 |-> [c \in 0..8 |-> FALSE]]

\* _add_values marking every cell user-accessible
add_values_all(acc, pb) == [r \in 0..8 |-> [c \in 0..8 |-> TRUE]]

\* _add_values: what it leaves in cursors_user_accessible (the drawing aside)
add_values(acc, pb) ==
    [r \in 0..8 |-> [c \in 0..8 |->
        IF acc[r][c] /\ pb[r][c] # 0 THEN acc[r][c]
        ELSE IF pb[r][c] = 0 THEN TRUE
        ELSE acc[r][c]]]

\* WindowBoard.update, which draws the board and calls _add_values
update(acc, pb) == add_values(acc, pb)

\* Window._main up to the loop: the first update
MainStart ==
    /\ ui = "start"
    /\ cursors_user_accessible' = update(cursors_user_accessible, playing_board)
    /\ ui' = "loop"
    /\ UNCHANGED <<board, solution, pc, mode, difficulty, row, fr, fc, fn, stack,
                   ret, total_to_remove, removed, start, result, generates,
                   candidate, col, playing_board, index_row, index_col, solved,
                   errors, marked, moves>>

\* Window._main lines 62-68: the terminal has another size, the board is
\* drawn again
Resize ==
    /\ ui = "loop"
    /\ cursors_user_accessible' = update(cursors_user_accessible, playing_board)
    /\ UNCHANGED <<board, solution, pc, mode, difficulty, row, fr, fc, fn, stack,
                   ret, total_to_remove, removed, start, result, generates,
                   candidate, col, playing_board, index_row, index_col, solved,
                   errors, ui, marked, moves>>

\* handle_key with a numeric key: _write_value when the cell is accessible
KeyNumeric(key) ==
    /\ ui = "loop"
    /\ playing_board' =
          IF cursors_user_accessible[index_row][index_col]
          THEN place(playing_board, index_row, index_col, key)
          ELSE playing_board
    /\ UNCHANGED <<board, solution, pc, mode, difficulty, row, fr, fc, fn, stack,
                   ret, total_to_remove, removed, start, result, generates,
                   candidate, col, cursors_user_accessible, index_row, index_col,
                   solved, errors, ui, marked, moves>>

\* handle_key with an arrow key or one of a, d, w, s
KeyMove(key) ==
    /\ ui = "loop"
    /\ moves < MaxMoves
    /\ moves' = moves + 1
    /\ index_col' =
          IF key = "KEY_LEFT" THEN (IF index_col > 0 THEN index_col - 1 ELSE 8)
          ELSE IF key = "KEY_RIGHT" THEN (IF index_col < 8 THEN index_col + 1 ELSE 0)
          ELSE index_col
    /\ index_row' =
          IF key = "KEY_UP" THEN (IF index_row > 0 THEN index_row - 1 ELSE 8)
          ELSE IF key = "KEY_DOWN" THEN (IF index_row < 8 THEN index_row + 1 ELSE 0)
          ELSE index_row
    /\ UNCHANGED <<board, solution, pc, mode, difficulty, row, fr, fc, fn, stack,
                   ret, total_to_remove, removed, start, result, generates,
                   candidate, col, playing_board, cursors_user_accessible, solved,
                   errors, ui, marked>>

\* Window._handle_key with ':': the status bar takes the keys
KeyColon ==
    /\ ui = "loop"
    /\ ui' = "bar"
    /\ UNCHANGED <<board, solution, pc, mode, difficulty, row, fr, fc, fn, stack,
                   ret, total_to_remove, removed, start, result, generates,
                   candidate, col, playing_board, cursors_user_accessible,
                   index_row, index_col, solved, errors, marked, moves>>

\* the command q or quit
CmdQuit ==
    /\ ui = "bar"
    /\ ui' = "quit"
    /\ UNCHANGED <<board, solution, pc, mode, difficulty, row, fr, fc, fn, stack,
                   ret, total_to_remove, removed, start, result, generates,
                   candidate, col, playing_board, cursors_user_accessible,
                   index_row, index_col, solved, errors, marked, moves>>

\* a command that is none of the known ones, or the escape key
CmdOther ==
    /\ ui = "bar"
    /\ ui' = "loop"
    /\ UNCHANGED <<board, solution, pc, mode, difficulty, row, fr, fc, fn, stack,
                   ret, total_to_remove, removed, start, result, generates,
                   candidate, col, playing_board, cursors_user_accessible,
                   index_row, index_col, solved, errors, marked, moves>>

\* the command c or check: immutable when check says solved, mark_errors
\* otherwise, and the status bar is entered again
CmdCheck ==
    /\ ui = "bar"
    /\ LET res == check(playing_board, board)
       IN  IF res.solved
           THEN /\ cursors_user_accessible' = update(NoneAccessible, playing_board)
                /\ UNCHANGED <<index_row, index_col, marked>>
           ELSE /\ index_row' = IF res.errors = <<>> THEN index_row
                                ELSE res.errors[Len(res.errors)][1]
                /\ index_col' = IF res.errors = <<>> THEN index_col
                                ELSE res.errors[Len(res.errors)][2]
                /\ cursors_user_accessible' = NoneAccessible
                /\ marked' = TRUE
    /\ UNCHANGED <<board, solution, pc, mode, difficulty, row, fr, fc, fn, stack,
                   ret, total_to_remove, removed, start, result, generates,
                   candidate, col, playing_board, solved, errors, ui, moves>>

\* the commands e, m, h: change_board, with the board and the playing board
\* of the difficulty setter
CmdDifficulty(d) ==
    /\ ui = "bar"
    /\ generates < MaxGenerate
    /\ generates' = generates + 1
    /\ difficulty' = d
    /\ \E b \in UIBoards(d) :
          /\ board' = b
          /\ playing_board' = b
          /\ cursors_user_accessible' = update(NoneAccessible, b)
    /\ solution' = UISolution
    /\ marked' = FALSE
    /\ ui' = "loop"
    /\ UNCHANGED <<pc, mode, row, fr, fc, fn, stack, ret, total_to_remove,
                   removed, start, result, candidate, col, index_row, index_col,
                   solved, errors, moves>>

\* the command s or solve: visual_solve up to the call of _vsolve
CmdSolve ==
    /\ ui = "bar"
    /\ playing_board' = board
    /\ cursors_user_accessible' = update(cursors_user_accessible, board)
    /\ marked' = FALSE
    /\ stack' = <<>>
    /\ ui' = "vsolve_call"
    /\ UNCHANGED <<board, solution, pc, mode, difficulty, row, fr, fc, fn, ret,
                   total_to_remove, removed, start, result, generates, candidate,
                   col, index_row, index_col, solved, errors, moves>>

\* _vsolve lines 406-408: no empty cell, return True
VSolveFull ==
    /\ ui = "vsolve_call"
    /\ find_empty(playing_board) = None
    /\ ret' = TRUE
    /\ ui' = "vsolve_ret"
    /\ UNCHANGED <<board, solution, pc, mode, difficulty, row, fr, fc, fn, stack,
                   total_to_remove, removed, start, result, generates, candidate,
                   col, playing_board, cursors_user_accessible, index_row,
                   index_col, solved, errors, marked, moves>>

\* _vsolve lines 406-411: an empty cell, the candidates are range(1, 10)
VSolveEnter ==
    /\ ui = "vsolve_call"
    /\ find_empty(playing_board) # None
    /\ stack' = Append(stack, [row |-> find_empty(playing_board)[1],
                               col |-> find_empty(playing_board)[2],
                               i   |-> 1])
    /\ ui' = "vsolve_loop"
    /\ UNCHANGED <<board, solution, pc, mode, difficulty, row, fr, fc, fn, ret,
                   total_to_remove, removed, start, result, generates, candidate,
                   col, playing_board, cursors_user_accessible, index_row,
                   index_col, solved, errors, marked, moves>>

\* _vsolve lines 412-420: the candidate is possible, it is placed, the board
\* is drawn and _vsolve is called
VSolvePlace ==
    /\ ui = "vsolve_loop"
    /\ Top.i <= 9
    /\ possible(playing_board, Top.row, Top.col, Top.i)
    /\ playing_board' = place(playing_board, Top.row, Top.col, Top.i)
    /\ cursors_user_accessible' =
          update(cursors_user_accessible,
                 place(playing_board, Top.row, Top.col, Top.i))
    /\ ui' = "vsolve_call"
    /\ UNCHANGED <<board, solution, pc, mode, difficulty, row, fr, fc, fn, stack,
                   ret, total_to_remove, removed, start, result, generates,
                   candidate, col, index_row, index_col, solved, errors, marked,
                   moves>>

\* _vsolve lines 411-412: the candidate is not possible
VSolveSkip ==
    /\ ui = "vsolve_loop"
    /\ Top.i <= 9
    /\ ~possible(playing_board, Top.row, Top.col, Top.i)
    /\ stack' = Advance
    /\ UNCHANGED <<board, solution, pc, mode, difficulty, row, fr, fc, fn, ret,
                   total_to_remove, removed, start, result, generates, candidate,
                   col, playing_board, cursors_user_accessible, index_row,
                   index_col, solved, errors, ui, marked, moves>>

\* _vsolve line 429: the candidates are exhausted, return False
VSolveFail ==
    /\ ui = "vsolve_loop"
    /\ Top.i > 9
    /\ stack' = Pop
    /\ ret' = FALSE
    /\ ui' = "vsolve_ret"
    /\ UNCHANGED <<board, solution, pc, mode, difficulty, row, fr, fc, fn,
                   total_to_remove, removed, start, result, generates, candidate,
                   col, playing_board, cursors_user_accessible, index_row,
                   index_col, solved, errors, marked, moves>>

\* _vsolve lines 419-420: the call returned True, return True
VSolveRetTrue ==
    /\ ui = "vsolve_ret"
    /\ stack # <<>>
    /\ ret
    /\ stack' = Pop
    /\ UNCHANGED <<board, solution, pc, mode, difficulty, row, fr, fc, fn, ret,
                   total_to_remove, removed, start, result, generates, candidate,
                   col, playing_board, cursors_user_accessible, index_row,
                   index_col, solved, errors, ui, marked, moves>>

\* _vsolve lines 419-427: the call returned False, the cell is reset and the
\* board is drawn
VSolveRetFalse ==
    /\ ui = "vsolve_ret"
    /\ stack # <<>>
    /\ ~ret
    /\ playing_board' = undo(playing_board, Top.row, Top.col)
    /\ cursors_user_accessible' =
          update(cursors_user_accessible, undo(playing_board, Top.row, Top.col))
    /\ stack' = Advance
    /\ ui' = "vsolve_loop"
    /\ UNCHANGED <<board, solution, pc, mode, difficulty, row, fr, fc, fn, ret,
                   total_to_remove, removed, start, result, generates, candidate,
                   col, index_row, index_col, solved, errors, marked, moves>>

\* visual_solve lines 397-400 and the status bar entered again: check of the
\* playing board, immutable when it says solved
VisualSolveEnd ==
    /\ ui = "vsolve_ret"
    /\ stack = <<>>
    /\ LET res == check(playing_board, board)
       IN  /\ solved' = res.solved
           /\ errors' = res.errors
           /\ cursors_user_accessible' =
                 IF res.solved THEN update(NoneAccessible, playing_board)
                 ELSE cursors_user_accessible
    /\ ui' = "bar"
    /\ UNCHANGED <<board, solution, pc, mode, difficulty, row, fr, fc, fn, stack,
                   ret, total_to_remove, removed, start, result, generates,
                   candidate, col, playing_board, index_row, index_col, marked,
                   moves>>

\* main.py: Window() and the difficulty setter have run, start() has not
InitUI ==
    /\ difficulty \in {"easy", "medium", "hard"}
    /\ board \in UIBoards(difficulty)
    /\ solution = UISolution
    /\ playing_board = board
    /\ cursors_user_accessible = NoneAccessible
    /\ index_row = 0 /\ index_col = 0
    /\ solved = FALSE
    /\ errors = None
    /\ ui = "start"
    /\ marked = FALSE
    /\ moves = 0
    /\ pc = "idle"
    /\ mode = "generate"
    /\ row = None
    /\ col = None
    /\ fr = 0 /\ fc = 0 /\ fn = 0
    /\ stack = <<>>
    /\ ret = FALSE
    /\ total_to_remove = 0
    /\ removed = 0
    /\ start = None
    /\ result = None
    /\ generates = 0
    /\ candidate = None

NextUI ==
    \/ MainStart
    \/ Resize
    \/ \E key \in 0..MaxDigit : KeyNumeric(key)
    \/ \E key \in {"KEY_LEFT", "KEY_RIGHT", "KEY_UP", "KEY_DOWN"} : KeyMove(key)
    \/ KeyColon
    \/ CmdQuit
    \/ CmdOther
    \/ CmdCheck
    \/ \E d \in {"easy", "medium", "hard"} : CmdDifficulty(d)
    \/ CmdSolve
    \/ VSolveFull
    \/ VSolveEnter
    \/ VSolvePlace
    \/ VSolveSkip
    \/ VSolveFail
    \/ VSolveRetTrue
    \/ VSolveRetFalse
    \/ VisualSolveEnd

SpecUI == InitUI /\ [][NextUI]_vars

(***************************************************************************)
(* The rules of Sudoku, stated on the grid alone.                          *)
(***************************************************************************)
Units ==
    {{<<r, c>> : c \in 0..8} : r \in 0..8} \cup
    {{<<r, c>> : r \in 0..8} : c \in 0..8} \cup
    {{<<3 * i + r, 3 * j + c>> : r \in 0..2, c \in 0..2} : i \in 0..2, j \in 0..2}

At(g, p) == g[p[1]][p[2]]

\* every row, column and block holds each digit 1..9 (so exactly once, no zero)
Legal(g) == \A u \in Units : {At(g, p) : p \in u} = 1..9

\* no digit stands twice in a row, column or block
NoRepeat(g) ==
    \A u \in Units : \A p \in u, q \in u :
        (p # q /\ At(g, p) # 0) => At(g, p) # At(g, q)

\* q is another cell of the row, the column or the block of p
Peer(p, q) == p # q /\ \E u \in Units : p \in u /\ q \in u

Zeros(g) == {p \in Cells : At(g, p) = 0}

\* generate has returned
Generated == generates > 0 /\ pc \in {"idle", "check_call", "checked"}

\* the position of a cell in row-major order
Pos(p) == p[1] * 9 + p[2]

\* the elements of a sequence of cells stand in row-major order, none twice
RowMajor(e) == \A i \in 1..(Len(e) - 1) : Pos(e[i]) < Pos(e[i + 1])

Elems(x) == {x[i] : i \in 1..Len(x)}

(***************************************************************************)
(* Claims on generate and on check of a generated puzzle.                  *)
(***************************************************************************)
\* C1: after generate returns, whatever the difficulty and the random draws,
\* solution holds no zero and each digit once in every row, column and block.
C1_SolutionLegal == Generated => Legal(solution)

C1_Witness ==
    /\ Generated
    /\ difficulty = "easy"
    /\ solution[0] = AsRow(Rev(range(1, 10)))

\* C2: after generate returns, board agrees with solution wherever it is not
\* zero, and the number of its zeros is the drawn target, which lies in the
\* range of the difficulty (easy 28..34, medium 34..40, hard 40..46).
C2_BoardIsSolutionMinusK ==
    Generated =>
        /\ \A p \in Cells : At(board, p) # 0 => At(board, p) = At(solution, p)
        /\ Cardinality(Zeros(board)) = total_to_remove
        /\ total_to_remove \in (CASE difficulty = "easy"   -> 28..34
                                  [] difficulty = "medium" -> 34..40
                                  [] difficulty = "hard"   -> 40..46)

C2_Witness ==
    /\ Generated
    /\ difficulty = "hard"
    /\ total_to_remove = 46
    /\ Cardinality(Zeros(board)) = 46

\* C6: check of the solution of a generated puzzle returns solved = True and
\* no conflict.
C6_CheckSolution ==
    (pc = "checked" /\ generates > 0 /\ candidate = solution) =>
        (result.solved = TRUE /\ result.errors = <<>>)

C6_Witness ==
    pc = "checked" /\ generates > 0 /\ candidate = solution /\ result.solved

\* the candidate is the solution but for the cell p, a given, which holds
\* another digit
GivenChanged(p) ==
    /\ At(board, p) # 0
    /\ At(candidate, p) \in (1..9) \ {At(solution, p)}
    /\ candidate = With(solution, p, At(candidate, p))

\* C9 as stated: with one given changed to another digit, check returns
\* solved = False and no conflict, wherever the other cells were empty.
C9_GivenChangedNoConflict ==
    (pc = "checked" /\ generates > 0) =>
        \A p \in Cells : GivenChanged(p) =>
            (result.solved = FALSE /\ result.errors = <<>>)

\* C9 amended: with one given changed to another digit, check returns
\* solved = False, never reports the changed cell, and reports in row-major
\* order exactly the cells empty in the puzzle that hold the new digit in the
\* row, column or block of the changed cell.
C9_GivenChangedConflicts ==
    (pc = "checked" /\ generates > 0) =>
        \A p \in Cells : GivenChanged(p) =>
            /\ result.solved = FALSE
            /\ RowMajor(result.errors)
            /\ Elems(result.errors) =
                  {q \in Cells : /\ Peer(p, q)
                                 /\ At(board, q) = 0
                                 /\ At(candidate, q) = At(candidate, p)}

C9_Witness ==
    /\ pc = "checked" /\ generates > 0
    /\ \E p \in Cells : GivenChanged(p)
    /\ result.errors # <<>>

(***************************************************************************)
(* Claims on the solver.                                                   *)
(***************************************************************************)
\* g can be completed to a legal grid: it has no repeated digit and, if a
\* cell is empty, some digit in that cell leaves a grid that can be completed
RECURSIVE HasCompletion(_)
HasCompletion(g) ==
    /\ NoRepeat(g)
    /\ \/ Zeros(g) = {}
       \/ LET p == CHOOSE p \in Zeros(g) : TRUE
          IN  \E v \in 1..9 : HasCompletion(With(g, p, v))

\* C3: started on a grid that has a legal completion, the solver returns
\* True, leaves no zero, keeps every cell that was not zero, and the final
\* grid has no digit twice in a row, column or block.
C3_SolveCompletes ==
    (pc = "solved" /\ HasCompletion(start)) =>
        /\ ret = TRUE
        /\ Zeros(board) = {}
        /\ \A p \in Cells : At(start, p) # 0 => At(board, p) = At(start, p)
        /\ NoRepeat(board)

C3_Witness ==
    /\ pc = "solved"
    /\ Cardinality(Zeros(start)) >= 3
    /\ HasCompletion(start)
    /\ ret = TRUE
    /\ Zeros(board) = {}

\* C4 as stated: started on a grid without legal completion the solver
\* returns False, and it returns True only with a legal complete grid.
C4_SolveRejects ==
    pc = "solved" =>
        /\ ~HasCompletion(start) => ret = FALSE
        /\ ret = TRUE => Legal(board)

\* C5: when a call of the solver is about to return False (line 230), the
\* grid is the grid the call started on.
C5_FailureRestoresGrid ==
    (pc = "solve_loop" /\ Top.i > 9) => board = Top.entry

\* a recursive call returns False after a placement of its own was undone
C5_Witness ==
    /\ pc = "solve_loop" /\ Top.i > 9
    /\ Len(stack) >= 2
    /\ board = Top.entry
    /\ \E k \in 1..9 : possible(board, Top.row, Top.col, Top.nums[k])

(***************************************************************************)
(* Claims on check.                                                        *)
(***************************************************************************)
\* C7 as stated: check returns solved = False for every board that still
\* holds a zero.
C7_ZeroNeverSolved ==
    (pc = "checked" /\ Zeros(candidate) # {}) => result.solved = FALSE

C10_ConflictsOnlyAtEmpty ==
    pc = "checked" =>
        /\ \A i \in 1..Len(result.errors) : At(board, result.errors[i]) = 0
        /\ RowMajor(result.errors)

\* conflicts are reported while a given that violates a rule is not
C10_Witness ==
    /\ pc = "checked"
    /\ Len(result.errors) >= 2
    /\ \E p \in Cells :
          /\ At(board, p) # 0
          /\ ~possible(candidate, p[1], p[2], At(candidate, p))

(***************************************************************************)
(* Claims on the grid while generate and solve run.                        *)
(***************************************************************************)
\* C11: in every state of generate (the seeding of row 0, of column 0 and of
\* the first block, the completion by _solve, the removal) and in every state
\* of a solve started on a grid with no digit twice in a row, column or block,
\* no digit other than 0 stands twice in a row, column or block of board.
C11_NoRepeatWhileRunning ==
    /\ (mode = "generate" /\ pc \notin {"fill_row", "idle"}) => NoRepeat(board)
    /\ (mode = "solve" /\ NoRepeat(start)) => NoRepeat(board)
    /\ Generated => NoRepeat(board)

\* the seeding of the first block is about to overwrite a cell it has set
C11_Witness ==
    /\ pc = "fill_square"
    /\ fr = 1 /\ fc = 1
    /\ board[1][1] # 0
    /\ row[fn] # board[1][1]
    /\ possible(board, fr, fc, row[fn])
    /\ NoRepeat(board)

(***************************************************************************)
(* Claims on the order of the candidates in solve.                         *)
(***************************************************************************)
\* C12: solve tries the digits in the order 1..9 at the first empty cell in
\* row-major order, so the grid it ends in is fixed by the grid it starts
\* on; started on the grid of zeros it ends in the completion of the
\* lowest-digit-first search, whose first row is 1, 2, 3, 4, 5, 6, 7, 8, 9.
C12_PlainSolveCanonical ==
    (pc = "solved" /\ start = ZeroGrid) => board[0] = AsRow(range(1, 10))

(***************************************************************************)
(* Claims on the removal of cells.                                         *)
(***************************************************************************)
\* one pass of the loop of _remove_vals that counts: removed grows by one and
\* exactly one cell goes from a digit to 0
CountedRemoval ==
    /\ removed' = removed + 1
    /\ \E p \in Cells :
          /\ At(board, p) # 0
          /\ board' = With(board, p, 0)

\* C13: the removal ends for every difficulty when the draws are fair: the
\* count reaches the target, which is never more than the cells that are not
\* zero; a draw of a cell that is zero changes nothing, and every counted
\* draw turns exactly one cell that is not zero into 0.
C13_RemovalTerminates ==
    /\ [](pc = "remove" =>
            /\ removed <= total_to_remove
            /\ Cardinality(Zeros(board)) = removed
            /\ total_to_remove - removed <= 81 - Cardinality(Zeros(board)))
    /\ [][(pc = "remove" /\ pc' = "remove") => CountedRemoval]_vars
    /\ ((pc = "remove") ~> (pc = "idle" /\ removed = total_to_remove))

C13_Witness ==
    /\ pc = "idle"
    /\ generates > 0
    /\ difficulty = "easy"
    /\ total_to_remove = 28
    /\ removed = 28
    /\ Cardinality(Zeros(board)) = 28

(***************************************************************************)
(* Claims on the window.                                                   *)
(***************************************************************************)
\* C14: once a check command has failed and mark_errors has run, and until a
\* new board is generated or the solve command is run, no numeric key changes
\* a cell of the playing board, whatever cursor moves, redraws after a resize
\* or unknown commands come in between.
C14_NoEditAfterFailedCheck ==
    [][(marked /\ marked') => playing_board' = playing_board]_vars

\* C15: after any keys, commands and resizes, every given of the puzzle (a
\* cell that is not zero in board) holds in the playing board the digit it
\* has in board, and only cells that are zero in board are user-accessible.
C15_GivensKept ==
    ui # "none" =>
        \A p \in Cells :
            /\ At(board, p) # 0 => At(playing_board, p) = At(board, p)
            /\ cursors_user_accessible[p[1]][p[2]] => At(board, p) = 0

\* the user has written a cell and the cursor now stands on a given
C15_Witness ==
    /\ ui = "loop"
    /\ board[index_row][index_col] # 0
    /\ ~cursors_user_accessible[index_row][index_col]
    /\ \E p \in Cells : At(board, p) = 0 /\ At(playing_board, p) # 0

====
